---------------------------- MODULE Spec2Model ----------------------------
(***************************************************************************)
(* DiceBox: the physics-and-resolution engine (js/dice/DicePhysics.js)     *)
(* and the session controller that drives it (DiceManager).                *)
(*                                                                         *)
(* Numbers.  Lengths are integers in units of 1/100.  The icosahedron's    *)
(* vertices hold the golden ratio t = (1 + sqrt 5)/2, so every coordinate  *)
(* is an exact number a + b*t, written <<a, b>>  (t*t = t + 1).            *)
(*                                                                         *)
(* Orientations.  A body's quaternion is the unit quaternion Q/|Q| of an   *)
(* integer quaternion Q = <<x, y, z, w>>;  vmult is computed by cannon's   *)
(* own formula on Q, which yields the rotated vector times |Q|^2, the same *)
(* positive factor for every face of the body.                             *)
(***************************************************************************)
EXTENDS Integers, Sequences, FiniteSets, TLC

VARIABLES
    diceBodies,   \* DicePhysics.diceBodies: the roster, in creation order
    worldBodies,  \* ids of the bodies added to the CANNON world
    results,      \* the list returned by getAllResults, <<>> after any other call
    nextId,       \* identity given to the next body that is constructed
    lastOp,       \* the DicePhysics operation that ran last
    allStopped,   \* what allDiceStopped returned, FALSE after any other call
    onCollision,  \* DicePhysics.onCollision: the collision callback, or NULL
    worldContacts,\* world.contacts: the contact equations of the last world.step
    sink          \* the calls of onCollision made by the last step, in order

VARIABLES
    isRolling,      \* DiceManager.isRolling
    diceType,       \* DiceManager.diceType
    animationId,    \* DiceManager.animationId: <<>> for null, <<h>> the handle of a frame request
    frames,         \* the handles of the frame requests that have neither run nor been cancelled
    onRollComplete, \* DiceManager.onRollComplete: <<>> for null, <<r>> the resolve of roll r
    rollStartTime,  \* DiceManager.rollStartTime, in ms
    diceData,       \* DiceManager.diceData: the bodies of the roll, in creation order
    timers,         \* the setTimeout callbacks that have not run yet
    promises,       \* the promises roll() has returned, in call order
    now,            \* Date.now(), in ms
    frameRan        \* animate has run at this clock value

VARIABLES
    selectedType,    \* StartUI.selectedType
    selectedCount,   \* StartUI.diceCount
    currentSettings, \* DiceBoxApp.currentSettings: count and type (the colour is left out)
    appIsRolling,    \* DiceBoxApp.isRolling
    overlayVisible,  \* the result overlay has the class 'visible'
    currentScene,    \* SceneManager.currentScene
    currentLang,     \* I18n.currentLang
    translations,    \* I18n.translations: the language files it was made of
    loads            \* the calls of setLanguage so far, each with the point
                     \* its loadLanguage has reached

i18nVars == <<currentLang, translations, loads>>
appVars == <<selectedType, selectedCount, currentSettings, appIsRolling,
             overlayVisible, currentScene, i18nVars>>
physVars == <<diceBodies, worldBodies, results, nextId, lastOp, allStopped>>
collVars == <<onCollision, worldContacts, sink>>
mgrVars == <<isRolling, diceType, animationId, frames, onRollComplete, rollStartTime, diceData, timers,
             promises, now, frameRan>>
vars == <<physVars, collVars, mgrVars, appVars>>

----------------------------------------------------------------------------
(* Bounds of the model *)

\* Quaternion components range over -QMax..QMax.
QMax == 1
\* Math.random() is drawn from {0/RandDen, ..., (RandDen-1)/RandDen}.
RandDen == 2
\* At most MaxBodies die bodies are constructed in one run of the resolver.
MaxBodies == 2

\* StartUI.diceCount: the number of dice of a roll unless the slider is moved.
diceCount == 2

----------------------------------------------------------------------------
(* Exact arithmetic on numbers a + b*t *)

N(a) == <<a, 0>>
Zero == <<0, 0>>
PAdd(p, q) == <<p[1] + q[1], p[2] + q[2]>>
PSub(p, q) == <<p[1] - q[1], p[2] - q[2]>>
PNeg(p) == <<-p[1], -p[2]>>
PMul(p, q) == <<p[1] * q[1] + p[2] * q[2], p[1] * q[2] + p[2] * q[1] + p[2] * q[2]>>
PDiv(p, k) == <<p[1] \div k, p[2] \div k>>

\* a + b*t > 0, decided exactly: 2(a + b*t) = (2a + b) + b*sqrt 5.
PPos(p) ==
    LET u == 2 * p[1] + p[2]
        r == p[2]
    IN  IF r = 0 THEN u > 0
        ELSE IF u >= 0 /\ r > 0 THEN TRUE
        ELSE IF u <= 0 /\ r < 0 THEN FALSE
        ELSE IF u > 0 THEN u * u > 5 * r * r
        ELSE 5 * r * r > u * u

PGt(p, q) == PPos(PSub(p, q))

(* CANNON.Vec3 *)
Vec3(x, y, z) == <<x, y, z>>
IVec3(x, y, z) == <<N(x), N(y), N(z)>>
vsub(a, b) == <<PSub(a[1], b[1]), PSub(a[2], b[2]), PSub(a[3], b[3])>>
vneg(a) == <<PNeg(a[1]), PNeg(a[2]), PNeg(a[3])>>
cross(a, b) ==
    <<PSub(PMul(a[2], b[3]), PMul(a[3], b[2])),
      PSub(PMul(a[3], b[1]), PMul(a[1], b[3])),
      PSub(PMul(a[1], b[2]), PMul(a[2], b[1]))>>
dot(a, b) == PAdd(PAdd(PMul(a[1], b[1]), PMul(a[2], b[2])), PMul(a[3], b[3]))
vscale(k, a) == <<PMul(k, a[1]), PMul(k, a[2]), PMul(k, a[3])>>

upVector == IVec3(0, 1, 0)

\* Quaternion.vmult(v) of cannon-es, on the integer quaternion q.
vmult(q, v) ==
    LET qx == N(q[1])
        qy == N(q[2])
        qz == N(q[3])
        qw == N(q[4])
        ix == PSub(PAdd(PMul(qw, v[1]), PMul(qy, v[3])), PMul(qz, v[2]))
        iy == PSub(PAdd(PMul(qw, v[2]), PMul(qz, v[1])), PMul(qx, v[3]))
        iz == PSub(PAdd(PMul(qw, v[3]), PMul(qx, v[2])), PMul(qy, v[1]))
        iw == PNeg(PAdd(PAdd(PMul(qx, v[1]), PMul(qy, v[2])), PMul(qz, v[3])))
    IN  <<PAdd(PSub(PSub(PMul(ix, qw), PMul(iw, qx)), PMul(iy, qz)), PMul(iz, qy)),
          PAdd(PSub(PSub(PMul(iy, qw), PMul(iw, qy)), PMul(iz, qx)), PMul(ix, qz)),
          PAdd(PSub(PSub(PMul(iz, qw), PMul(iw, qz)), PMul(ix, qy)), PMul(iy, qx))>>

\* The orientations a body can hold: every nonzero integer quaternion.
Quats ==
    {q \in (-QMax..QMax) \X (-QMax..QMax) \X (-QMax..QMax) \X (-QMax..QMax) :
        q # <<0, 0, 0, 0>>}

\* The values Math.random() is drawn from, as numerators over RandDen.
Rand == 0..(RandDen - 1)

----------------------------------------------------------------------------
(* Shape library: createDiceShape and the convex polyhedra *)

RECURSIVE Gcd(_, _)
Gcd(a, b) == IF b = 0 THEN (IF a < 0 THEN -a ELSE a) ELSE Gcd(b, a % (IF b < 0 THEN -b ELSE b))

\* Vec3.normalize().  The code divides by the Euclidean length; the model
\* divides by the greatest common divisor of the coefficients instead.  For
\* every shape of the library all faces then keep one common length
\* (SameNormalLength), so each modelled normal is the unit normal times the
\* same positive constant.  A zero vector stays zero, as in cannon-es.
normalize(n) ==
    LET g == Gcd(Gcd(Gcd(n[1][1], n[1][2]), Gcd(n[2][1], n[2][2])), Gcd(n[3][1], n[3][2]))
    IN  IF g = 0 THEN n
        ELSE <<PDiv(n[1], g), PDiv(n[2], g), PDiv(n[3], g)>>

\* const scale = 0.5, in units of 1/100.
scale == 50

Box(halfExtents) == [type |-> "Box", halfExtents |-> halfExtents]
ConvexPolyhedron(vertices, faces) ==
    [type |-> "ConvexPolyhedron", vertices |-> vertices, faces |-> faces]

\* Vertices and faces are JavaScript arrays: index i is element i + 1 here.
At(arr, i) == arr[i + 1]

createTetrahedronShape(sc) ==
    LET a == (sc * 12) \div 10
        vertices == << IVec3(a, a, a), IVec3(a, -a, -a), IVec3(-a, a, -a), IVec3(-a, -a, a) >>
        faces == << <<0, 2, 1>>, <<0, 1, 3>>, <<0, 3, 2>>, <<1, 2, 3>> >>
    IN  ConvexPolyhedron(vertices, faces)

createOctahedronShape(sc) ==
    LET s == (sc * 12) \div 10
        vertices == << IVec3(s, 0, 0), IVec3(-s, 0, 0), IVec3(0, s, 0),
                       IVec3(0, -s, 0), IVec3(0, 0, s), IVec3(0, 0, -s) >>
        faces == << <<0, 2, 4>>, <<0, 4, 3>>, <<0, 3, 5>>, <<0, 5, 2>>,
                    <<1, 2, 5>>, <<1, 5, 3>>, <<1, 3, 4>>, <<1, 4, 2>> >>
    IN  ConvexPolyhedron(vertices, faces)

createIcosahedronShape(sc) ==
    LET s == (sc * 8) \div 10
        S == <<s, 0>>       \* s
        T == <<0, s>>       \* s * t
        mS == <<-s, 0>>
        mT == <<0, -s>>
        vertices ==
            << Vec3(mS, T, Zero), Vec3(S, T, Zero), Vec3(mS, mT, Zero), Vec3(S, mT, Zero),
               Vec3(Zero, mS, T), Vec3(Zero, S, T), Vec3(Zero, mS, mT), Vec3(Zero, S, mT),
               Vec3(T, Zero, mS), Vec3(T, Zero, S), Vec3(mT, Zero, mS), Vec3(mT, Zero, S) >>
        faces ==
            << <<0, 11, 5>>, <<0, 5, 1>>, <<0, 1, 7>>, <<0, 7, 10>>, <<0, 10, 11>>,
               <<1, 5, 9>>, <<5, 11, 4>>, <<11, 10, 2>>, <<10, 7, 6>>, <<7, 1, 8>>,
               <<3, 9, 4>>, <<3, 4, 2>>, <<3, 2, 6>>, <<3, 6, 8>>, <<3, 8, 9>>,
               <<4, 9, 5>>, <<2, 4, 11>>, <<6, 2, 10>>, <<8, 6, 7>>, <<9, 8, 1>> >>
    IN  ConvexPolyhedron(vertices, faces)

\* Mutant of createDiceShape: a d12 gets the twenty faces of the icosahedron.
createDiceShape_D12Icosahedron(type) ==
    CASE type = "d4" -> createTetrahedronShape(scale)
      [] type = "d8" -> createOctahedronShape(scale)
      [] type = "d12" -> createIcosahedronShape((scale * 9) \div 10)
      [] type = "d20" -> createIcosahedronShape(scale)
      [] OTHER -> Box(IVec3(scale, scale, scale))

createDiceShape(type) ==
    CASE type = "d4" -> createTetrahedronShape(scale)
      [] type = "d8" -> createOctahedronShape(scale)
      [] type = "d12" -> createOctahedronShape((scale * 9) \div 10)
      [] type = "d20" -> createIcosahedronShape(scale)
      [] OTHER -> Box(IVec3(scale, scale, scale))

\* The die types the application offers.
DiceTypes == {"d4", "d6", "d8", "d12", "d20"}

\* The types a die can be asked for: the five on offer, one that is not a
\* die type, and "" for a type that is null.
RequestedTypes == DiceTypes \cup {"d10", ""}

\* The maxValues table of getRandomDiceValue, with its "|| 6".
maxValues(type) ==
    CASE type = "d4" -> 4
      [] type = "d6" -> 6
      [] type = "d8" -> 8
      [] type = "d12" -> 12
      [] type = "d20" -> 20
      [] OTHER -> 6

----------------------------------------------------------------------------
(* Outcome resolver *)

\* Mutant of faceNormals: the values of the +Y and -Y faces are swapped.
faceNormals_SwappedY ==
    << [face |-> 2, normal |-> IVec3(1, 0, 0)],
       [face |-> 5, normal |-> IVec3(-1, 0, 0)],
       [face |-> 4, normal |-> IVec3(0, 1, 0)],
       [face |-> 3, normal |-> IVec3(0, -1, 0)],
       [face |-> 1, normal |-> IVec3(0, 0, 1)],
       [face |-> 6, normal |-> IVec3(0, 0, -1)] >>

\* this.faceNormals: the six local normals of the cube and their values.
faceNormals ==
    << [face |-> 2, normal |-> IVec3(1, 0, 0)],
       [face |-> 5, normal |-> IVec3(-1, 0, 0)],
       [face |-> 3, normal |-> IVec3(0, 1, 0)],
       [face |-> 4, normal |-> IVec3(0, -1, 0)],
       [face |-> 1, normal |-> IVec3(0, 0, 1)],
       [face |-> 6, normal |-> IVec3(0, 0, -1)] >>

\* maxDot starts at -Infinity: every number is greater.  Greater_OrEqual is
\* the mutant of Greater that lets an equal dot product replace the best.
NegInf == "-Infinity"
Greater_OrEqual(d, maxDot) == IF maxDot = NegInf THEN TRUE ELSE ~PGt(maxDot, d)
Greater(d, maxDot) == IF maxDot = NegInf THEN TRUE ELSE PGt(d, maxDot)

\* The forEach of getD6Value, from entry k on, with the running (maxDot, topFace).
RECURSIVE D6Loop(_, _, _, _)
D6Loop(q, k, maxDot, topFace) ==
    IF k > Len(faceNormals) THEN topFace
    ELSE LET worldNormal == vmult(q, faceNormals[k].normal)
             d == dot(worldNormal, upVector)
         IN  IF Greater(d, maxDot)
             THEN D6Loop(q, k + 1, d, faceNormals[k].face)
             ELSE D6Loop(q, k + 1, maxDot, topFace)

getD6Value(body) == D6Loop(body.quaternion, 1, NegInf, 1)

\* The local normal of face i: normalize((v1 - v0) x (v2 - v0)).
FaceNormal(shape, i) ==
    LET face == At(shape.faces, i)
        v0 == At(shape.vertices, At(face, 0))
        v1 == At(shape.vertices, At(face, 1))
        v2 == At(shape.vertices, At(face, 2))
    IN  normalize(cross(vsub(v1, v0), vsub(v2, v0)))

\* What a call that throws a TypeError yields.
TypeError == -98

\* vertices[face[0]], vertices[face[1]] and vertices[face[2]] are all there;
\* v1.vsub(v0, e1) or v2.vsub(v0, e2) throws when one of them is undefined.
HasVertices(shape, i) ==
    LET face == At(shape.faces, i)
    IN  /\ Len(face) >= 3
        /\ \A k \in 0..2 : At(face, k) >= 0 /\ At(face, k) < Len(shape.vertices)

\* The for loop of getPolyhedronValue, from face i on; yields bestFaceIndex.
RECURSIVE PolyLoop(_, _, _, _, _)
PolyLoop(shape, q, i, maxDot, bestFaceIndex) ==
    IF i >= Len(shape.faces) THEN bestFaceIndex
    ELSE IF ~HasVertices(shape, i) THEN TypeError
    ELSE LET worldNormal == vmult(q, FaceNormal(shape, i))
             d == dot(worldNormal, upVector)
         IN  IF Greater(d, maxDot)
             THEN PolyLoop(shape, q, i + 1, d, i)
             ELSE PolyLoop(shape, q, i + 1, maxDot, bestFaceIndex)

\* Mutant of mapFaceIndexToValue: the sequential branch forgets the "+ 1".
mapFaceIndexToValue_NoOffset(type, faceIndex) ==
    IF type = "d20" /\ faceIndex >= 0 /\ faceIndex < 20
    THEN At(<<1, 20, 2, 19, 3, 18, 4, 17, 5, 16, 6, 15, 7, 14, 8, 13, 9, 12, 10, 11>>, faceIndex)
    ELSE faceIndex

\* Mutant of d20Map: the faces are numbered in sequence.
d20Map_Sequential == <<1, 2, 3, 4, 5, 6, 7, 8, 9, 10, 11, 12, 13, 14, 15, 16, 17, 18, 19, 20>>

d20Map == <<1, 20, 2, 19, 3, 18, 4, 17, 5, 16, 6, 15, 7, 14, 8, 13, 9, 12, 10, 11>>

mapFaceIndexToValue(type, faceIndex) ==
    IF type = "d20" /\ faceIndex >= 0 /\ faceIndex < Len(d20Map)
    THEN At(d20Map, faceIndex)
    ELSE faceIndex + 1

getPolyhedronValue(body, type) ==
    LET bestFaceIndex == PolyLoop(body.shape, body.quaternion, 0, NegInf, -1)
    IN  IF bestFaceIndex = TypeError THEN TypeError
        ELSE mapFaceIndexToValue(type, bestFaceIndex)

\* Math.floor(Math.random() * max) + 1, with Math.random() = rnd / RandDen.
getRandomDiceValue(type, rnd) == ((rnd * maxValues(type)) \div RandDen) + 1

\* getDiceValue; rnd is the number Math.random() returns should it be called.
getDiceValue(body, rnd) ==
    LET type == IF body.diceType = "" THEN "d6" ELSE body.diceType
    IN  IF type = "d6" THEN getD6Value(body)
        ELSE IF body.shape.type = "ConvexPolyhedron" THEN getPolyhedronValue(body, type)
        ELSE getRandomDiceValue(type, rnd)

----------------------------------------------------------------------------
(* DicePhysics: the world, the tray and the roster *)

\* Bodies are told apart by identity: the floor is body 0, the walls are
\* bodies -1..-4 (in wallConfigs order), the dice are bodies 1, 2, ...
floorBody == 0
wallBodies == <<-1, -2, -3, -4>>
TrayBodies == {floorBody} \cup {wallBodies[k] : k \in 1..Len(wallBodies)}

NULL == "null"

AWAKE == "AWAKE"
SLEEPING == "SLEEPING"

\* createDiceBody(type): the body it constructs.  rx, ry, rz are the three
\* Math.random() draws of the spawn position, q the random orientation.
NewDiceBody(id, type, rx, ry, rz, q) ==
    [id |-> id,
     diceType |-> type,
     shape |-> createDiceShape(type),
     position |-> <<((rx * 400) \div RandDen) - 200,
                    500 + ((ry * 300) \div RandDen),
                    ((rz * 400) \div RandDen) - 200>>,
     quaternion |-> q,
     velocity |-> <<0, 0, 0>>,
     angularVelocity |-> <<0, 0, 0>>,
     sleepState |-> AWAKE]

\* Mutant of getAllResults: the values come out in reverse order.
getAllResults_Reversed(bodies, rnds) ==
    [i \in 1..Len(bodies) |-> getDiceValue(bodies[Len(bodies) + 1 - i], rnds[i])]

\* A body without a shape: body.shapes[0] is undefined.
NoShape == [type |-> "undefined"]

\* getAllResults: diceBodies.map(body => getDiceValue(body)); rnds[i] is the
\* random number at hand for body i.
getAllResults(bodies, rnds) == [i \in 1..Len(bodies) |-> getDiceValue(bodies[i], rnds[i])]

\* Mutant of WorldAfterClearDice: the tray is removed with the dice.
WorldAfterClearDice_Empty == {}

\* clearDice: the world after every roster body is removed from it.
WorldAfterClearDice == worldBodies \ {diceBodies[i].id : i \in 1..Len(diceBodies)}

Ids(bodies) == {bodies[i].id : i \in 1..Len(bodies)}

\* What the constructors of StartUI, DiceBoxApp and SceneManager set; the
\* currentSettings of the constructor have a count and no type.
AppConstructed ==
    /\ selectedType = "d6"
    /\ selectedCount = diceCount
    /\ currentSettings = [count |-> 2, type |-> "undefined"]
    /\ appIsRolling = FALSE
    /\ overlayVisible = FALSE
    /\ currentScene = "start"
    /\ currentLang = "en"
    /\ translations = {}
    /\ loads = <<>>

\* The fields the DiceManager constructor sets, and the clock at 0.
ManagerConstructed ==
    /\ AppConstructed
    /\ isRolling = FALSE
    /\ diceType = "d6"
    /\ animationId = <<>>
    /\ frames = {}
    /\ onRollComplete = <<>>
    /\ rollStartTime = 0
    /\ diceData = <<>>
    /\ timers = {}
    /\ promises = <<>>
    /\ now = 0
    /\ frameRan = FALSE

InitPhysics ==
    /\ diceBodies = <<>>
    /\ worldBodies = TrayBodies
    /\ results = <<>>
    /\ nextId = 1
    /\ lastOp = "init"
    /\ allStopped = FALSE
    /\ onCollision = NULL
    /\ worldContacts = <<>>
    /\ sink = <<>>
    /\ ManagerConstructed

\* createDiceBody, called on its own.
CreateDiceBody(type, rx, ry, rz, q) ==
    /\ nextId <= MaxBodies
    /\ diceBodies' = Append(diceBodies, NewDiceBody(nextId, type, rx, ry, rz, q))
    /\ worldBodies' = worldBodies \cup {nextId}
    /\ nextId' = nextId + 1
    /\ results' = <<>>
    /\ lastOp' = "createDiceBody"
    /\ allStopped' = FALSE
    /\ UNCHANGED <<collVars, mgrVars, appVars>>

\* getAllResults, called on its own; `results` holds what it returned.
GetAllResults(rnds) ==
    /\ diceBodies # <<>>
    /\ results' = getAllResults(diceBodies, rnds)
    /\ lastOp' = "getAllResults"
    /\ allStopped' = FALSE
    /\ UNCHANGED <<diceBodies, worldBodies, nextId, collVars, mgrVars, appVars>>

\* Mutant of RosterAfterClearDice: this.diceBodies is not emptied.
RosterAfterClearDice_Kept == diceBodies

\* clearDice: this.diceBodies = []
RosterAfterClearDice == <<>>

\* clearDice, called on its own.
ClearDice ==
    /\ diceBodies # <<>>
    /\ worldBodies' = WorldAfterClearDice
    /\ diceBodies' = RosterAfterClearDice
    /\ results' = <<>>
    /\ lastOp' = "clearDice"
    /\ allStopped' = FALSE
    /\ UNCHANGED <<nextId, collVars, mgrVars, appVars>>

\* DicePhysics.dispose, called on its own: clearDice, then the walls and the
\* floor are removed from the world.
Dispose ==
    /\ worldBodies # {}
    /\ worldBodies' = WorldAfterClearDice \ TrayBodies
    /\ diceBodies' = RosterAfterClearDice
    /\ results' = <<>>
    /\ lastOp' = "dispose"
    /\ allStopped' = FALSE
    /\ UNCHANGED <<nextId, collVars, mgrVars, appVars>>

----------------------------------------------------------------------------
(* The resolver on its own: one die at a time, in every orientation *)

NextResolve ==
    \/ \E type \in RequestedTypes, q \in Quats :
          diceBodies = <<>> /\ CreateDiceBody(type, 0, 0, 0, q)
    \/ \E rnd \in Rand : GetAllResults([i \in 1..Len(diceBodies) |-> rnd])
    \/ ClearDice

SpecResolve == InitPhysics /\ [][NextResolve]_vars

----------------------------------------------------------------------------
(* Settlement monitor: out-of-bounds recovery and allDiceStopped *)

Abs(x) == IF x < 0 THEN -x ELSE x
LengthSq(v) == v[1] * v[1] + v[2] * v[2] + v[3] * v[3]

\* Mutant of isOutOfBounds: a die below the floor level is not noticed.
isOutOfBounds_NoFloorCheck(body) ==
    Abs(body.position[1]) > 700 \/ Abs(body.position[3]) > 700

isOutOfBounds(body) ==
    \/ body.position[2] < -500
    \/ Abs(body.position[1]) > 700
    \/ Abs(body.position[3]) > 700

\* Mutant of sleep: the die is stopped, its sleep state is not set.
sleep_OnlyStopsMotion(body) ==
    [body EXCEPT !.velocity = <<0, 0, 0>>, !.angularVelocity = <<0, 0, 0>>]

\* Body.wakeUp() and Body.sleep() of cannon-es.
wakeUp(body) == [body EXCEPT !.sleepState = AWAKE]
sleep(body) ==
    [body EXCEPT !.sleepState = SLEEPING,
                 !.velocity = <<0, 0, 0>>,
                 !.angularVelocity = <<0, 0, 0>>]

\* Mutant of ResetBody: the die is put back and woken, its velocity is kept.
ResetBody_KeepVelocity(body, rs) ==
    wakeUp([body EXCEPT
        !.position = <<((rs[1] * 200) \div RandDen) - 100,
                       300 + ((rs[2] * 200) \div RandDen),
                       ((rs[3] * 200) \div RandDen) - 100>>])

\* The body of the forEach of resetOutOfBoundsDice for a die that is out of
\* bounds; rs are its six Math.random() draws, in call order.
ResetBody(body, rs) ==
    wakeUp([body EXCEPT
        !.position = <<((rs[1] * 200) \div RandDen) - 100,
                       300 + ((rs[2] * 200) \div RandDen),
                       ((rs[3] * 200) \div RandDen) - 100>>,
        !.velocity = <<0, -500, 0>>,
        !.angularVelocity = <<(rs[4] * 500) \div RandDen,
                              (rs[5] * 500) \div RandDen,
                              (rs[6] * 500) \div RandDen>>])

\* resetOutOfBoundsDice; draws[i] are the random numbers at hand for body i.
resetOutOfBoundsDice(bodies, draws) ==
    [i \in 1..Len(bodies) |->
        IF isOutOfBounds(bodies[i]) THEN ResetBody(bodies[i], draws[i]) ELSE bodies[i]]

\* diceBodies.every(...) of allDiceStopped from body i on: it stops at the
\* first die that still moves, and puts to sleep the slow dice it passed.
RECURSIVE EveryStopped(_, _)
EveryStopped(bodies, i) ==
    IF i > Len(bodies) THEN [bodies |-> bodies, ret |-> TRUE]
    ELSE IF bodies[i].sleepState = SLEEPING THEN EveryStopped(bodies, i + 1)
    ELSE IF LengthSq(bodies[i].velocity) < 100 /\ LengthSq(bodies[i].angularVelocity) < 100
         THEN EveryStopped([bodies EXCEPT ![i] = sleep(bodies[i])], i + 1)
    ELSE [bodies |-> bodies, ret |-> FALSE]

allDiceStopped(bodies, draws) == EveryStopped(resetOutOfBoundsDice(bodies, draws), 1)

\* The six draws of one recovery: position x, y, z, then angular x, y, z.
ResetDraws == {<<a, b, a, b, a, b>> : a \in Rand, b \in Rand}

\* resetOutOfBoundsDice, called on its own.
ResetOutOfBoundsDice(draws) ==
    /\ diceBodies # <<>>
    /\ diceBodies' = resetOutOfBoundsDice(diceBodies, draws)
    /\ lastOp' = "resetOutOfBoundsDice"
    /\ results' = <<>>
    /\ allStopped' = FALSE
    /\ UNCHANGED <<worldBodies, nextId, collVars, mgrVars, appVars>>

\* allDiceStopped, called on its own.
AllDiceStopped(draws) ==
    LET r == allDiceStopped(diceBodies, draws)
    IN  /\ diceBodies # <<>>
        /\ diceBodies' = r.bodies
        /\ allStopped' = r.ret
        /\ lastOp' = "allDiceStopped"
        /\ results' = <<>>
        /\ UNCHANGED <<worldBodies, nextId, collVars, mgrVars, appVars>>

\* What world.step can make of one die: where it is, how it moves, whether
\* the engine has put it to sleep (a sleeping body has no velocity).
StepOutcome(position, velocity, angularVelocity, quaternion, sleepState) ==
    [position |-> position, velocity |-> velocity, angularVelocity |-> angularVelocity,
     quaternion |-> quaternion, sleepState |-> sleepState]

Integrate(body, o) ==
    IF body.sleepState = SLEEPING THEN body
    ELSE [body EXCEPT !.position = o.position, !.velocity = o.velocity,
                      !.angularVelocity = o.angularVelocity,
                      !.quaternion = o.quaternion, !.sleepState = o.sleepState]

\* world.step(deltaTime), the integration: every awake die is integrated;
\* outcomes[i] is what the solver makes of die i.  A sleeping die is not
\* integrated.
Integrated(bodies, outcomes) == [i \in 1..Len(bodies) |-> Integrate(bodies[i], outcomes[i])]

----------------------------------------------------------------------------
(* Collision classifier: handleCollision and checkCollisions *)

\* What a property that an object does not have reads as.
Undefined == -99

Includes(bodies, b) == \E i \in 1..Len(bodies) : bodies[i].id = b
IsWall(b) == \E k \in 1..Len(wallBodies) : wallBodies[k] = b

\* The classification both handlers compute (the code holds it twice).
collisionType(bodies, bodyA, bodyB) ==
    LET isDiceA == Includes(bodies, bodyA)
        isDiceB == Includes(bodies, bodyB)
        isFloorA == (bodyA = floorBody)
        isFloorB == (bodyB = floorBody)
        isWallA == IsWall(bodyA)
        isWallB == IsWall(bodyB)
    IN  IF isDiceA /\ isDiceB THEN "dice"
        ELSE IF (isDiceA \/ isDiceB) /\ (isFloorA \/ isFloorB) THEN "floor"
        ELSE IF (isDiceA \/ isDiceB) /\ (isWallA \/ isWallB) THEN "wall"
        ELSE NULL

\* Where the tray bodies are, and where and how fast any body is.
TrayPosition(b) ==
    CASE b = floorBody -> <<0, -25, 0>>
      [] b = wallBodies[1] -> <<0, 250, -500>>
      [] b = wallBodies[2] -> <<0, 250, 500>>
      [] b = wallBodies[3] -> <<-500, 250, 0>>
      [] b = wallBodies[4] -> <<500, 250, 0>>
BodyOf(bodies, b) == bodies[CHOOSE i \in 1..Len(bodies) : bodies[i].id = b]
PositionOf(bodies, b) == IF Includes(bodies, b) THEN BodyOf(bodies, b).position ELSE TrayPosition(b)
VelocityOf(bodies, b) == IF Includes(bodies, b) THEN BodyOf(bodies, b).velocity ELSE <<0, 0, 0>>

\* A ContactEquation: the two bodies and the impact velocity along the normal.
Contact(bi, bj, impact) == [bi |-> bi, bj |-> bj, impact |-> impact]

\* A call of onCollision(type, velocity, x).  velocitySq is the square of the
\* velocity passed, x2 twice the x passed when it is a mean of two; bi and bj
\* record the pair the call was made for, via the handler that made it.
Call(type, velocitySq, x2, bi, bj, via) ==
    [type |-> type, velocitySq |-> velocitySq, x2 |-> x2, bi |-> bi, bj |-> bj, via |-> via]

\* The 'collide' event cannon-es dispatches on a body at a first contact:
\* {type, body, contact, target}.  It has no bodyA and no bodyB.
CollideEvent(target, other, contact) ==
    [type |-> "collide", body |-> other, contact |-> contact, target |-> target]
Field(event, name) == IF name \in DOMAIN event THEN event[name] ELSE Undefined

\* handleCollision(event): the calls of onCollision it makes.
handleCollision(bodies, event) ==
    IF onCollision = NULL THEN <<>>
    ELSE LET bodyA == Field(event, "bodyA")
             bodyB == Field(event, "bodyB")
             contact == event.contact
             type == collisionType(bodies, bodyA, bodyB)
         IN  IF type = NULL THEN <<>>
             ELSE << Call(type, contact.impact * contact.impact,
                          2 * PositionOf(bodies, contact.bi)[1], bodyA, bodyB, "collide") >>

\* The events world.step dispatches for contact k: one on each body of a pair
\* that was not in contact after the previous step, and the calls the
\* listener of createDiceBody (line 160) makes on the dice that get them.
\* The world itself dispatches no 'collide' event, so the listener of init
\* (line 42) is never called.
Touching(contacts, a, b) ==
    \E k \in 1..Len(contacts) :
        \/ contacts[k].bi = a /\ contacts[k].bj = b
        \/ contacts[k].bi = b /\ contacts[k].bj = a
CollideCalls(bodies, previous, c) ==
    IF Touching(previous, c.bi, c.bj) THEN <<>>
    ELSE (IF Includes(bodies, c.bi)
          THEN handleCollision(bodies, CollideEvent(c.bi, c.bj, c)) ELSE <<>>)
         \o (IF Includes(bodies, c.bj)
             THEN handleCollision(bodies, CollideEvent(c.bj, c.bi, c)) ELSE <<>>)

RECURSIVE DispatchCollide(_, _, _, _)
DispatchCollide(bodies, previous, contacts, k) ==
    IF k > Len(contacts) THEN <<>>
    ELSE CollideCalls(bodies, previous, contacts[k])
         \o DispatchCollide(bodies, previous, contacts, k + 1)

\* Mutant of ScanContact: without the test of the relative speed.
ScanContact_AnySpeed(bodies, contact) ==
    LET type == collisionType(bodies, contact.bi, contact.bj)
    IN  IF type = NULL THEN <<>>
        ELSE << Call(type,
                     LengthSq(<<VelocityOf(bodies, contact.bi)[1] - VelocityOf(bodies, contact.bj)[1],
                                VelocityOf(bodies, contact.bi)[2] - VelocityOf(bodies, contact.bj)[2],
                                VelocityOf(bodies, contact.bi)[3] - VelocityOf(bodies, contact.bj)[3]>>),
                     PositionOf(bodies, contact.bi)[1] + PositionOf(bodies, contact.bj)[1],
                     contact.bi, contact.bj, "scan") >>

\* The body of the for loop of checkCollisions for one contact.
ScanContact(bodies, contact) ==
    LET bodyA == contact.bi
        bodyB == contact.bj
        d == <<VelocityOf(bodies, bodyA)[1] - VelocityOf(bodies, bodyB)[1],
               VelocityOf(bodies, bodyA)[2] - VelocityOf(bodies, bodyB)[2],
               VelocityOf(bodies, bodyA)[3] - VelocityOf(bodies, bodyB)[3]>>
        type == collisionType(bodies, bodyA, bodyB)
    IN  IF LengthSq(d) < 100 * 100 THEN <<>>       \* velocity < 1: continue
        ELSE IF type = NULL THEN <<>>
        ELSE << Call(type, LengthSq(d),
                     PositionOf(bodies, bodyA)[1] + PositionOf(bodies, bodyB)[1],
                     bodyA, bodyB, "scan") >>

RECURSIVE ScanFrom(_, _, _)
ScanFrom(bodies, contacts, k) ==
    IF k > Len(contacts) THEN <<>>
    ELSE ScanContact(bodies, contacts[k]) \o ScanFrom(bodies, contacts, k + 1)

checkCollisions(bodies, contacts) ==
    IF onCollision = NULL THEN <<>> ELSE ScanFrom(bodies, contacts, 1)

\* Mutant of Step: checkCollisions scans the contacts of the step before.
Step_ScansPrevious(contacts, outcomes) ==
    /\ diceBodies # <<>>
    /\ worldContacts' = contacts
    /\ diceBodies' = Integrated(diceBodies, outcomes)
    /\ sink' = checkCollisions(Integrated(diceBodies, outcomes), worldContacts)
    /\ lastOp' = "step"
    /\ results' = <<>>
    /\ allStopped' = FALSE
    /\ UNCHANGED <<worldBodies, nextId, onCollision, mgrVars, appVars>>

\* step(deltaTime): world.step finds the contacts, dispatches the collide
\* events, solves and integrates; checkCollisions then scans world.contacts
\* with the velocities the step has left.
Step(contacts, outcomes) ==
    /\ diceBodies # <<>>
    /\ worldContacts' = contacts
    /\ diceBodies' = Integrated(diceBodies, outcomes)
    /\ sink' = DispatchCollide(diceBodies, worldContacts, contacts, 1)
                 \o checkCollisions(Integrated(diceBodies, outcomes), contacts)
    /\ lastOp' = "step"
    /\ results' = <<>>
    /\ allStopped' = FALSE
    /\ UNCHANGED <<worldBodies, nextId, onCollision, mgrVars, appVars>>

\* The poses and motions the settlement specification lets the solver produce:
\* at rest in the tray, on the edge of the bounds, below the floor, beyond a
\* wall; still, slower than 0.1, exactly 0.1.
SettlePositions ==
    {<<0, 50, 0>>, <<700, -500, -700>>, <<0, -501, 0>>, <<-701, 50, 0>>, <<0, 50, 701>>}
SettleVelocities == {<<0, 0, 0>>, <<6, 7, 0>>, <<6, 8, 0>>}
SettleOutcomes ==
    {StepOutcome(p, v, <<0, 0, 0>>, <<0, 0, 0, 1>>, AWAKE) :
        p \in SettlePositions, v \in SettleVelocities}
    \cup {StepOutcome(p, <<0, 0, 0>>, <<0, 6, 8>>, <<0, 0, 0, 1>>, AWAKE) : p \in SettlePositions}
    \cup {StepOutcome(p, <<0, 0, 0>>, <<0, 0, 0>>, <<0, 0, 0, 1>>, SLEEPING) : p \in SettlePositions}

\* No contact equation, for the specifications that do not look at contacts.
NoContacts == {<<>>}

\* The roster after createDiceBody was called for count dice of one type,
\* all draws being 0 and the orientation the identity.
RECURSIVE Spawned(_, _)
Spawned(type, count) ==
    IF count = 0 THEN <<>>
    ELSE Append(Spawned(type, count - 1), NewDiceBody(count, type, 0, 0, 0, <<0, 0, 0, 1>>))

\* The settlement monitor on the dice of one roll: 1..diceCount dice.
InitSettle ==
    \E count \in 1..diceCount :
        /\ diceBodies = Spawned("d6", count)
        /\ worldBodies = TrayBodies \cup (1..count)
        /\ results = <<>>
        /\ nextId = count + 1
        /\ lastOp = "createDiceBody"
        /\ allStopped = FALSE
        /\ onCollision = NULL
        /\ worldContacts = <<>>
        /\ sink = <<>>
        /\ ManagerConstructed

NextSettle ==
    \/ \E outcomes \in [1..Len(diceBodies) -> SettleOutcomes], contacts \in NoContacts :
          Step(contacts, outcomes)
    \/ \E draws \in [1..Len(diceBodies) -> ResetDraws] : ResetOutOfBoundsDice(draws)
    \/ \E draws \in [1..Len(diceBodies) -> ResetDraws] : AllDiceStopped(draws)

SpecSettle == InitSettle /\ [][NextSettle]_vars

----------------------------------------------------------------------------
(* The classifier on the dice of one roll *)

MaxContacts == 2

\* What the solver leaves of a die in the collision specification: at rest,
\* slower than 1, exactly as fast as 1.
CollideOutcomes ==
    { StepOutcome(<<0, 50, 0>>, <<0, 0, 0>>, <<0, 0, 0>>, <<0, 0, 0, 1>>, AWAKE),
      StepOutcome(<<100, 50, 0>>, <<60, 0, 0>>, <<0, 0, 0>>, <<0, 0, 0, 1>>, AWAKE),
      StepOutcome(<<-300, 50, 0>>, <<60, 80, 0>>, <<0, 0, 0>>, <<0, 0, 0, 1>>, AWAKE) }

\* The body pairs the narrowphase can produce contact equations for: a die
\* and the floor (in either order), a die and a wall, two dice.  Two static
\* bodies never make a pair.
Impacts == {150}
ContactPairs(count) ==
    IF count = 1 THEN {<<1, floorBody>>, <<floorBody, 1>>, <<1, wallBodies[1]>>}
    ELSE {<<1, 2>>, <<1, floorBody>>, <<floorBody, 2>>, <<2, wallBodies[4]>>}
Contacts(count) == {Contact(p[1], p[2], i) : p \in ContactPairs(count), i \in Impacts}
ContactLists(count) ==
    UNION {[1..n -> Contacts(count)] : n \in 0..MaxContacts}

\* After the DiceManager constructor has set the callback and a roll has
\* created 1..diceCount dice.
InitCollide ==
    \E count \in 1..diceCount :
        /\ diceBodies = Spawned("d6", count)
        /\ worldBodies = TrayBodies \cup (1..count)
        /\ results = <<>>
        /\ nextId = count + 1
        /\ lastOp = "createDiceBody"
        /\ allStopped = FALSE
        /\ onCollision = "playCollision"
        /\ worldContacts = <<>>
        /\ sink = <<>>
        /\ ManagerConstructed

NextCollide ==
    \E contacts \in ContactLists(Len(diceBodies)),
       outcomes \in [1..Len(diceBodies) -> CollideOutcomes] :
        Step(contacts, outcomes)

SpecCollide == InitCollide /\ [][NextCollide]_vars

----------------------------------------------------------------------------
(* DiceManager: roll, animate, stopRolling, clear *)

MaxRolls == 2

maxRollTime == 10000
resultDelay == 500

\* The clock is read at the frames; there are four frame intervals in the
\* timeout.  Rolls are made in the first interval, and the clock is
\* followed until the last of them has timed out and delivered.
TickMs == maxRollTime \div 4
LastRollAt == TickMs
MaxTime == LastRollAt + maxRollTime + 2 * TickMs

\* The DiceManager and the DicePhysics it owns, as one value.
Manager ==
    [isRolling |-> isRolling, diceType |-> diceType,
     animationId |-> animationId, frames |-> frames,
     onRollComplete |-> onRollComplete, rollStartTime |-> rollStartTime,
     diceData |-> diceData, timers |-> timers, now |-> now,
     diceBodies |-> diceBodies, worldBodies |-> worldBodies, nextId |-> nextId,
     results |-> results, allStopped |-> allStopped, lastOp |-> lastOp,
     worldContacts |-> worldContacts, sink |-> sink]

\* throwDice(body): the impulse on a body of mass 1 and the spin; rs are its
\* six Math.random() draws in call order, speeds rounded down to 1/100.
throwDice(body, rs) ==
    LET forceMagnitude == 1500 + ((rs[1] * 1000) \div RandDen)
    IN  [body EXCEPT
            !.velocity = <<((2 * rs[2] - RandDen) * forceMagnitude) \div (2 * RandDen),
                           (0 - forceMagnitude) \div 2,
                           ((2 * rs[3] - RandDen) * forceMagnitude) \div (2 * RandDen)>>,
            !.angularVelocity = <<((2 * rs[4] - RandDen) * 2000) \div (2 * RandDen),
                                  ((2 * rs[5] - RandDen) * 2000) \div (2 * RandDen),
                                  ((2 * rs[6] - RandDen) * 2000) \div (2 * RandDen)>>]

\* requestAnimationFrame(callback): a handle no pending request has.
requestAnimationFrame(pending) ==
    CHOOSE h \in 1..(Cardinality(pending) + 1) : h \notin pending

\* if (this.animationId) cancelAnimationFrame(this.animationId)
cancelAnimationFrame(pending, id) ==
    IF id = <<>> THEN pending ELSE pending \ {id[1]}

\* Mutant of clear: the roster is emptied, its bodies stay in the world.
clear_KeepsWorld(m) ==
    [m EXCEPT !.isRolling = FALSE, !.animationId = <<>>,
              !.frames = cancelAnimationFrame(@, m.animationId),
              !.diceBodies = <<>>, !.diceData = <<>>]

\* Mutant of clear: the deliveries that wait for their timer are dropped.
clear_DropsTimers(m) ==
    [m EXCEPT !.isRolling = FALSE, !.animationId = <<>>,
              !.frames = cancelAnimationFrame(@, m.animationId),
              !.worldBodies = @ \ Ids(m.diceBodies),
              !.diceBodies = <<>>, !.diceData = <<>>, !.results = <<>>,
              !.allStopped = FALSE, !.lastOp = "clearDice", !.timers = {}]

\* Mutant of clear: the frame that was requested is not cancelled.
clear_NoCancel(m) ==
    [m EXCEPT !.isRolling = FALSE, !.animationId = <<>>,
              !.worldBodies = @ \ Ids(m.diceBodies),
              !.diceBodies = <<>>, !.diceData = <<>>, !.results = <<>>,
              !.allStopped = FALSE, !.lastOp = "clearDice"]

\* clear(): stops the loop and removes the dice; onRollComplete is not touched.
clear(m) ==
    [m EXCEPT !.isRolling = FALSE,
              !.animationId = <<>>,
              !.frames = cancelAnimationFrame(@, m.animationId),
              !.worldBodies = @ \ Ids(m.diceBodies),
              !.diceBodies = <<>>,
              !.diceData = <<>>,
              !.results = <<>>,
              !.allStopped = FALSE,
              !.lastOp = "clearDice"]

\* The for loop of roll: count times createDiceBody, throwDice, diceData.push.
RECURSIVE createAndThrow(_, _, _, _)
createAndThrow(m, count, rs, q) ==
    IF count = 0 THEN m
    ELSE LET body == throwDice(NewDiceBody(m.nextId, m.diceType, rs[1], rs[2], rs[3], q), rs)
         IN  createAndThrow([m EXCEPT !.diceBodies = Append(@, body),
                                      !.worldBodies = @ \cup {m.nextId},
                                      !.nextId = @ + 1,
                                      !.diceData = Append(@, m.nextId)],
                            count - 1, rs, q)

\* physics.step() on the manager's physics.
physicsStep(m, contacts, outcomes) ==
    [m EXCEPT !.worldContacts = contacts,
              !.diceBodies = Integrated(@, outcomes),
              !.sink = DispatchCollide(m.diceBodies, m.worldContacts, contacts, 1)
                         \o checkCollisions(Integrated(m.diceBodies, outcomes), contacts),
              !.results = <<>>,
              !.allStopped = FALSE,
              !.lastOp = "step"]

\* stopRolling(): the results are computed now and handed to the callback
\* by a timer 500 ms later.
\* Mutant of stopRolling: the frame requested last is not cancelled.
stopRolling_NoCancel(m, rnds) ==
    IF ~m.isRolling THEN m
    ELSE LET res == getAllResults(m.diceBodies, rnds)
         IN  [m EXCEPT !.isRolling = FALSE, !.animationId = <<>>, !.results = res,
                       !.allStopped = FALSE, !.lastOp = "getAllResults",
                       !.onRollComplete = <<>>,
                       !.timers = IF m.onRollComplete # <<>>
                                  THEN @ \cup {[callback |-> m.onRollComplete[1],
                                                results |-> res,
                                                due |-> m.now + resultDelay]}
                                  ELSE @]

stopRolling(m, rnds) ==
    IF ~m.isRolling THEN m
    ELSE LET res == getAllResults(m.diceBodies, rnds)
         IN  [m EXCEPT !.isRolling = FALSE,
                       !.animationId = <<>>,
                       !.frames = cancelAnimationFrame(@, m.animationId),
                       !.results = res,
                       !.allStopped = FALSE,
                       !.lastOp = "getAllResults",
                       !.onRollComplete = <<>>,
                       !.timers = IF m.onRollComplete # <<>>
                                  THEN @ \cup {[callback |-> m.onRollComplete[1],
                                                results |-> res,
                                                due |-> m.now + resultDelay]}
                                  ELSE @]

\* Mutant of timedOut: the timeout never strikes.
timedOut_Never(m) == FALSE

\* elapsed > this.maxRollTime
timedOut(m) == m.now - m.rollStartTime > maxRollTime

\* animate(): one frame of the loop.
animate(m, contacts, outcomes, draws, rnds) ==
    IF ~m.isRolling THEN m
    ELSE LET requested == [m EXCEPT !.animationId = <<requestAnimationFrame(m.frames)>>,
                                    !.frames = @ \cup {requestAnimationFrame(m.frames)}]
             stepped == physicsStep(requested, contacts, outcomes)
             stopped == allDiceStopped(stepped.diceBodies, draws)
             checked == [stepped EXCEPT !.diceBodies = stopped.bodies,
                                        !.allStopped = stopped.ret,
                                        !.lastOp = "allDiceStopped"]
         IN  IF timedOut(stepped) THEN stopRolling(stepped, rnds)
             ELSE IF stopped.ret THEN stopRolling(checked, rnds)
             ELSE checked

\* The state the manager and its physics are left in.
Becomes(m) ==
    /\ isRolling' = m.isRolling
    /\ diceType' = m.diceType
    /\ animationId' = m.animationId
    /\ frames' = m.frames
    /\ onRollComplete' = m.onRollComplete
    /\ rollStartTime' = m.rollStartTime
    /\ diceData' = m.diceData
    /\ timers' = m.timers
    /\ diceBodies' = m.diceBodies
    /\ worldBodies' = m.worldBodies
    /\ nextId' = m.nextId
    /\ results' = m.results
    /\ allStopped' = m.allStopped
    /\ lastOp' = m.lastOp
    /\ worldContacts' = m.worldContacts
    /\ sink' = m.sink

\* new Promise(...) of roll: pending, with the count that was asked for.
NewPromise(count) ==
    [count |-> count, resolved |-> FALSE, value |-> <<>>]

\* roll(count): clear, create and throw the dice, keep resolve, run animate.
Roll(count, rs, q, contacts, outcomes, draws, rnds) ==
    /\ Len(promises) < MaxRolls
    /\ now <= LastRollAt
    /\ LET cleared == clear(Manager)
           started == [cleared EXCEPT !.isRolling = TRUE, !.rollStartTime = now]
           thrown == [createAndThrow(started, count, rs, q) EXCEPT !.lastOp = "createDiceBody"]
           kept == [thrown EXCEPT !.onRollComplete = <<Len(promises) + 1>>]
       IN  \E m \in {animate(kept, contacts, outcomes, draws, rnds)} : Becomes(m)
    /\ promises' = Append(promises, NewPromise(count))
    /\ frameRan' = TRUE
    /\ UNCHANGED <<onCollision, now>>

\* A requested animation frame runs its callback, animate; one frame per
\* clock value.
AnimationFrame(h, contacts, outcomes, draws, rnds) ==
    /\ h \in frames
    /\ ~frameRan
    /\ \E m \in {animate([Manager EXCEPT !.frames = @ \ {h}],
                          contacts, outcomes, draws, rnds)} : Becomes(m)
    /\ frameRan' = TRUE
    /\ UNCHANGED <<onCollision, now, promises, appVars>>

\* A timer that is due runs: callback(results) resolves the promise.
TimerFire(t) ==
    /\ t \in timers
    /\ t.due <= now
    /\ timers' = timers \ {t}
    /\ promises' = [promises EXCEPT ![t.callback] =
                        [@ EXCEPT !.resolved = TRUE, !.value = t.results]]
    /\ UNCHANGED <<physVars, collVars,
                   isRolling, diceType, animationId, frames, onRollComplete,
                   rollStartTime, diceData, now, frameRan>>

\* clear(), called from outside.
Clear ==
    /\ diceBodies # <<>>
    /\ \E m \in {clear(Manager)} : Becomes(m)
    /\ UNCHANGED <<onCollision, now, promises, frameRan, appVars>>

\* The clock: it is followed while a roll is under way, a result is awaited
\* or a roll can still be made.  It advances once the frame of this clock
\* value and the timers that are due have run, to the next multiple of TickMs
\* or to the time the next timer is due, whichever comes first.
NextGrid == ((now \div TickMs) + 1) * TickMs
NextDue == {t.due : t \in {u \in timers : u.due < NextGrid}}
NextTime ==
    IF NextDue = {} THEN NextGrid ELSE CHOOSE d \in NextDue : \A e \in NextDue : d <= e
Tick ==
    /\ NextTime <= MaxTime
    /\ isRolling \/ timers # {} \/ (Len(promises) < MaxRolls /\ now < LastRollAt)
    /\ frames = {} \/ frameRan
    /\ \A t \in timers : t.due > now
    /\ now' = NextTime
    /\ frameRan' = FALSE
    /\ UNCHANGED <<physVars, collVars, isRolling, diceType, animationId, frames,
                   onRollComplete, rollStartTime, diceData, timers, promises, appVars>>

\* What the solver makes of a die under the manager: tumbling with the 4
\* up, or at rest with the 3 up.
ManagerOutcomes ==
    { StepOutcome(<<0, 50, 0>>, <<60, 80, 0>>, <<0, 0, 0>>, <<1, 0, 0, 0>>, AWAKE),
      StepOutcome(<<0, 50, 0>>, <<0, 0, 0>>, <<0, 0, 0>>, <<0, 0, 0, 1>>, AWAKE) }
\* One Math.random() value a stands for all the draws of one handler run:
\* the six of throwDice, the six of a recovery, the one of getRandomDiceValue.
SixDraws(a) == <<a, a, a, a, a, a>>
SameForAll(x) == [i \in 1..diceCount |-> x]

\* After new DiceManager(canvas): the physics is initialised and the sound
\* callback is set.
InitManager ==
    /\ diceBodies = <<>>
    /\ worldBodies = TrayBodies
    /\ results = <<>>
    /\ nextId = 1
    /\ lastOp = "init"
    /\ allStopped = FALSE
    /\ onCollision = "playCollision"
    /\ worldContacts = <<>>
    /\ sink = <<>>
    /\ ManagerConstructed

AnimationFrames ==
    \E h \in frames, contacts \in NoContacts,
       outcomes \in [1..Len(diceBodies) -> ManagerOutcomes], a \in Rand :
        AnimationFrame(h, contacts, outcomes, SameForAll(SixDraws(a)), SameForAll(a))
TimerFires == \E t \in timers : TimerFire(t) /\ UNCHANGED appVars

Rolls ==
    \E count \in 1..diceCount, a \in Rand, contacts \in NoContacts :
        \E outcomes \in [1..count -> ManagerOutcomes] :
            Roll(count, SixDraws(a), <<0, 0, 0, 1>>, contacts, outcomes,
                 SameForAll(SixDraws(a)), SameForAll(a))
            /\ UNCHANGED appVars

NextManager ==
    \/ Rolls
    \/ AnimationFrames
    \/ TimerFires
    \/ Clear
    \/ Tick

\* A requested frame has not run at this clock value.  AnimationFrames is
\* enabled exactly then, and a step of it ends it.
FrameDue == frames # {} /\ ~frameRan

\* Frames and timers are delivered, and time passes.  The weak fairness of
\* AnimationFrames is written with its enabling condition: a frame does not
\* stay due for ever.
SpecManager ==
    /\ InitManager
    /\ [][NextManager]_vars
    /\ []<>(~FrameDue)
    /\ WF_vars(TimerFires)
    /\ WF_vars(Tick)

----------------------------------------------------------------------------
(* The resolver on bodies whose shape data is missing or malformed *)

\* No shape, a shape that is not a convex polyhedron, a polyhedron without
\* faces, a polyhedron with a face that names a vertex it does not have.
MalformedShapes ==
    { NoShape,
      Box(IVec3(scale, scale, scale)),
      ConvexPolyhedron(createOctahedronShape(scale).vertices, <<>>),
      ConvexPolyhedron(createOctahedronShape(scale).vertices, <<<<0, 2, 6>>>>) }

InitMalformed ==
    \E type \in DiceTypes, shape \in MalformedShapes, q \in Quats :
        /\ diceBodies = << [NewDiceBody(1, type, 0, 0, 0, q) EXCEPT !.shape = shape] >>
        /\ worldBodies = TrayBodies \cup {1}
        /\ results = <<>>
        /\ nextId = 2
        /\ lastOp = "createDiceBody"
        /\ allStopped = FALSE
        /\ onCollision = NULL
        /\ worldContacts = <<>>
        /\ sink = <<>>
        /\ ManagerConstructed

NextMalformed == \E rnd \in Rand : GetAllResults([i \in 1..Len(diceBodies) |-> rnd])

SpecMalformed == InitMalformed /\ [][NextMalformed]_vars

----------------------------------------------------------------------------
(* The roster and the world under every operation that adds or removes bodies *)

\* DiceManager.dispose(): clear(), then physics.dispose().
dispose(m) ==
    [clear(m) EXCEPT !.worldBodies = @ \ TrayBodies, !.lastOp = "dispose"]

\* dispose(), called from outside.
ManagerDispose ==
    /\ worldBodies # {}
    /\ \E m \in {dispose(Manager)} : Becomes(m)
    /\ UNCHANGED <<onCollision, now, promises, frameRan, appVars>>

\* One step after the throw a die is still in the air, with or without a
\* floor under it.
InTheAir ==
    { StepOutcome(<<0, 500, 0>>, <<60, -800, 0>>, <<100, 0, 0>>, <<0, 0, 0, 1>>, AWAKE) }

NextRoster ==
    \/ \E type \in DiceTypes : CreateDiceBody(type, 0, 0, 0, <<0, 0, 0, 1>>)
    \/ ClearDice
    \/ Dispose
    \/ \E count \in 1..diceCount, a \in Rand, contacts \in NoContacts :
          \E outcomes \in [1..count -> InTheAir] :
              Roll(count, SixDraws(a), <<0, 0, 0, 1>>, contacts, outcomes,
                   SameForAll(SixDraws(a)), SameForAll(a))
              /\ UNCHANGED appVars
    \/ Clear
    \/ ManagerDispose
    \/ \E contacts \in NoContacts, outcomes \in [1..Len(diceBodies) -> InTheAir] :
          Step(contacts, outcomes)
    \/ \E a \in Rand : AllDiceStopped([i \in 1..Len(diceBodies) |-> SixDraws(a)])

SpecRoster == InitManager /\ [][NextRoster]_vars

----------------------------------------------------------------------------
(* The DiceManager with the die type changed between and during the rolls *)

\* Mutant of setDiceType: the dice on the table take the new type as well.
setDiceType_Retypes(m, type) ==
    [m EXCEPT !.diceType = type,
              !.diceBodies = [i \in 1..Len(@) |-> [@[i] EXCEPT !.diceType = type]]]

\* setDiceType(type)
setDiceType(m, type) == [m EXCEPT !.diceType = type]

SetDiceType(type) ==
    /\ type # diceType
    /\ \E m \in {setDiceType(Manager, type)} : Becomes(m)
    /\ UNCHANGED <<onCollision, now, promises, frameRan, appVars>>

\* The types the selector is set to.
SelectedTypes == {"d6", "d8"}

\* What the solver makes of the die: as under the manager, or fallen off
\* the tray, which the settlement check of the frame recovers.
TypeOutcomes ==
    ManagerOutcomes \cup
    { StepOutcome(<<0, -600, 0>>, <<0, -900, 0>>, <<0, 0, 0>>, <<1, 0, 0, 0>>, AWAKE) }

\* roll(1): the type is per body, so one die a roll shows it.
RollsOfOne ==
    \E a \in Rand, contacts \in NoContacts, outcomes \in [1..1 -> TypeOutcomes] :
        Roll(1, SixDraws(a), <<0, 0, 0, 1>>, contacts, outcomes,
             SameForAll(SixDraws(a)), SameForAll(a))
            /\ UNCHANGED appVars

FramesOfOne ==
    \E h \in frames, contacts \in NoContacts,
       outcomes \in [1..Len(diceBodies) -> TypeOutcomes], a \in Rand :
        AnimationFrame(h, contacts, outcomes, SameForAll(SixDraws(a)), SameForAll(a))

NextType ==
    \/ RollsOfOne
    \/ FramesOfOne
    \/ TimerFires
    \/ Tick
    \/ \E type \in SelectedTypes : SetDiceType(type)

SpecType == InitManager /\ [][NextType]_vars

----------------------------------------------------------------------------
(* The classifier on contacts whose two sides are the same body *)

\* Contacts of a die with itself, which the engine does not produce, next to
\* the contact of die 1 with the floor.
SelfContacts(count) ==
    {Contact(i, i, imp) : i \in 1..count, imp \in Impacts}
        \cup {Contact(1, floorBody, imp) : imp \in Impacts}
SelfContactLists(count) ==
    UNION {[1..n -> SelfContacts(count)] : n \in 0..MaxContacts}

NextSelf ==
    \E contacts \in SelfContactLists(Len(diceBodies)),
       outcomes \in [1..Len(diceBodies) -> CollideOutcomes] :
        Step(contacts, outcomes)

SpecSelf == InitCollide /\ [][NextSelf]_vars

----------------------------------------------------------------------------
(* DiceRenderer: the values painted on the faces *)

\* The material groups of THREE.BoxGeometry, in order: +X, -X, +Y, -Y, +Z, -Z.
BoxGeometryNormals ==
    <<IVec3(1, 0, 0), IVec3(-1, 0, 0), IVec3(0, 1, 0), IVec3(0, -1, 0),
      IVec3(0, 0, 1), IVec3(0, 0, -1)>>

\* The value painted on material k (from 0) of a d6, a d8 and a d20.
createD6Materials == <<2, 5, 3, 4, 1, 6>>
createD8Materials == [i \in 1..8 |-> i]
createD20Materials == <<1, 20, 2, 19, 3, 18, 4, 17, 5, 16, 6, 15, 7, 14, 8, 13, 9, 12, 10, 11>>

----------------------------------------------------------------------------
(* DiceBoxApp: the start screen, the result overlay and startRolling *)

\* startRolling(): returns at once while isRolling; otherwise it sets
\* isRolling, switches to the rolling scene and calls diceManager.roll(count)
\* with the count of currentSettings.  The type of the settings is not read.
startRolling(settings, a) ==
    IF appIsRolling
    THEN UNCHANGED <<physVars, collVars, mgrVars, appIsRolling, currentScene>>
    ELSE /\ appIsRolling' = TRUE
         /\ currentScene' = "rolling"
         /\ \E outcomes \in [1..settings.count -> ManagerOutcomes] :
               Roll(settings.count, SixDraws(a), <<0, 0, 0, 1>>, <<>>, outcomes,
                    SameForAll(SixDraws(a)), SameForAll(a))

\* A click on a button of the type selector, an input on the count slider.
SelectType(type) ==
    /\ type # selectedType
    /\ selectedType' = type
    /\ UNCHANGED <<physVars, collVars, mgrVars, selectedCount, currentSettings,
                   appIsRolling, overlayVisible, currentScene, i18nVars>>
SetCount(count) ==
    /\ count # selectedCount
    /\ selectedCount' = count
    /\ UNCHANGED <<physVars, collVars, mgrVars, selectedType, currentSettings,
                   appIsRolling, overlayVisible, currentScene, i18nVars>>

\* A click on the Roll button of the start screen: onRoll(settings) keeps
\* the settings and calls startRolling.
RollClick(a) ==
    /\ currentSettings' = [count |-> selectedCount, type |-> selectedType]
    /\ startRolling([count |-> selectedCount, type |-> selectedType], a)
    /\ UNCHANGED <<selectedType, selectedCount, overlayVisible, i18nVars>>

\* A click on the Reroll button of the result overlay.
RerollClick(a) ==
    /\ overlayVisible' = FALSE
    /\ startRolling(currentSettings, a)
    /\ UNCHANGED <<selectedType, selectedCount, currentSettings, i18nVars>>

\* A click on the Home button of the result overlay.
HomeClick ==
    /\ overlayVisible' = FALSE
    /\ appIsRolling' = FALSE
    /\ currentScene' = "start"
    /\ UNCHANGED <<physVars, collVars, mgrVars, selectedType, selectedCount,
                   currentSettings, i18nVars>>

\* The timer of a roll runs and resolves its promise; the startRolling that
\* awaits it goes on: it shows the results and resets isRolling.
ResultsShown(t) ==
    /\ TimerFire(t)
    /\ overlayVisible' = TRUE
    /\ appIsRolling' = FALSE
    /\ UNCHANGED <<selectedType, selectedCount, currentSettings, currentScene, i18nVars>>

ShowResults == \E t \in timers : ResultsShown(t)

\* The handlers are listeners on the buttons; nothing in them looks at the
\* scene or at the overlay, so each may run whenever its event is dispatched.
NextApp ==
    \/ \E type \in SelectedTypes : SelectType(type)
    \/ \E count \in 1..diceCount : SetCount(count)
    \/ \E a \in Rand : RollClick(a)
    \/ \E a \in Rand : RerollClick(a)
    \/ HomeClick
    \/ ShowResults
    \/ AnimationFrames
    \/ Tick

SpecApp == InitManager /\ [][NextApp]_vars

----------------------------------------------------------------------------
(* I18n: setLanguage and the loads it starts *)

supportedLangs == {"ko", "en", "ja"}

\* The values a language selector may hand to setLanguage.
LangInputs == supportedLangs \cup {"fr"}

\* The calls of setLanguage a behaviour makes at most.
MaxLoads == 3

\* response.json() of languages/<lang>.json, as the set of files read.
LanguageFile(lang) == {lang}

\* deepMerge(target, source): the target's keys, overwritten by the source's.
deepMerge(target, source) == target \cup source

\* What loadLanguage(lang) makes when both fetches succeed.
TranslationsOf(lang) ==
    IF lang = "en" THEN LanguageFile("en")
    ELSE deepMerge(LanguageFile("en"), LanguageFile(lang))

\* setLanguage(lang) up to its first await: the language is taken and the
\* fetch of en.json is under way.
SetLanguage(lang) ==
    /\ Len(loads) < MaxLoads
    /\ IF lang \notin supportedLangs
       THEN UNCHANGED i18nVars
       ELSE /\ currentLang' = lang
            /\ loads' = Append(loads, [lang |-> lang, at |-> "en.json", failed |-> FALSE])
            /\ UNCHANGED translations
    /\ UNCHANGED <<physVars, collVars, mgrVars, selectedType, selectedCount,
                   currentSettings, appIsRolling, overlayVisible, currentScene>>

\* The fetch of en.json of call k ends: with an error the translations are
\* emptied; for 'en' they are the file; otherwise the fetch of the language's
\* own file is started.
DefaultFetched(k, ok) ==
    /\ k \in 1..Len(loads)
    /\ loads[k].at = "en.json"
    /\ IF ~ok
       THEN /\ translations' = {}
            /\ loads' = [loads EXCEPT ![k].at = "done", ![k].failed = TRUE]
       ELSE IF loads[k].lang = "en"
       THEN /\ translations' = LanguageFile("en")
            /\ loads' = [loads EXCEPT ![k].at = "done"]
       ELSE /\ loads' = [loads EXCEPT ![k].at = "lang.json"]
            /\ UNCHANGED translations
    /\ UNCHANGED <<physVars, collVars, mgrVars, selectedType, selectedCount,
                   currentSettings, appIsRolling, overlayVisible, currentScene,
                   currentLang>>

\* The fetch of the language's own file of call k ends: the translations are
\* the merge, or the English ones after an error.
TargetFetched(k, ok) ==
    /\ k \in 1..Len(loads)
    /\ loads[k].at = "lang.json"
    /\ translations' = IF ok THEN deepMerge(LanguageFile("en"), LanguageFile(loads[k].lang))
                             ELSE LanguageFile("en")
    /\ loads' = [loads EXCEPT ![k].at = "done", ![k].failed = ~ok]
    /\ UNCHANGED <<physVars, collVars, mgrVars, selectedType, selectedCount,
                   currentSettings, appIsRolling, overlayVisible, currentScene,
                   currentLang>>

NextI18n ==
    \/ \E lang \in LangInputs : SetLanguage(lang)
    \/ \E k \in 1..MaxLoads, ok \in BOOLEAN : DefaultFetched(k, ok)
    \/ \E k \in 1..MaxLoads, ok \in BOOLEAN : TargetFetched(k, ok)

SpecI18n == InitManager /\ [][NextI18n]_vars

----------------------------------------------------------------------------
(* Claims *)

\* The number of sides printed on a die of each supported type.
Sides(type) ==
    CASE type = "d4" -> 4
      [] type = "d6" -> 6
      [] type = "d8" -> 8
      [] type = "d12" -> 12
      [] type = "d20" -> 20

\* Every face normal of a library shape has the same length after normalize.
NormSq(v) == dot(v, v)
SameNormalLength ==
    \A type \in DiceTypes \ {"d6"} :
        LET shape == createDiceShape(type)
        IN  \A i \in 0..(Len(shape.faces) - 1) :
                NormSq(FaceNormal(shape, i)) = NormSq(FaceNormal(shape, 0))

\* C1: for a body of each supported type, in every orientation, the value
\* getDiceValue returns lies in the inclusive range of the type (1..4, 1..6,
\* 1..8, 1..12, 1..20).
C1_ValueInRange ==
    \A i \in 1..Len(results) :
        diceBodies[i].diceType \in DiceTypes
            => results[i] \in 1..Sides(diceBodies[i].diceType)

\* A twenty-sided die, turned away from its spawn pose, resolved to 20.
C1_Witness ==
    /\ Len(results) = 1
    /\ diceBodies[1].diceType = "d20"
    /\ diceBodies[1].quaternion \notin {<<0, 0, 0, 1>>, <<0, 0, 0, -1>>}
    /\ results[1] = 20

\* The cube's faces and their values as the claim lists them.
CubeFaces ==
    << [normal |-> IVec3(1, 0, 0), value |-> 2],
       [normal |-> IVec3(-1, 0, 0), value |-> 5],
       [normal |-> IVec3(0, 1, 0), value |-> 3],
       [normal |-> IVec3(0, -1, 0), value |-> 4],
       [normal |-> IVec3(0, 0, 1), value |-> 1],
       [normal |-> IVec3(0, 0, -1), value |-> 6] >>

\* Orientation q carries the local vector n exactly onto world up.
QuatNormSq(q) == q[1] * q[1] + q[2] * q[2] + q[3] * q[3] + q[4] * q[4]
MapsOntoUp(q, n) == vmult(q, n) = vscale(N(QuatNormSq(q)), upVector)

\* C2: a d6 whose orientation maps the local normal of one of the six faces
\* onto world up (0, 1, 0) resolves to exactly that face's value
\* (+X=2, -X=5, +Y=3, -Y=4, +Z=1, -Z=6).
C2_FaceUpGivesItsValue ==
    \A i \in 1..Len(results) :
        diceBodies[i].diceType = "d6" =>
            \A k \in 1..Len(CubeFaces) :
                MapsOntoUp(diceBodies[i].quaternion, CubeFaces[k].normal)
                    => results[i] = CubeFaces[k].value

\* A resolved d6 that was turned so that its -X face (value 5) is up.
C2_Witness ==
    /\ Len(results) = 1
    /\ diceBodies[1].diceType = "d6"
    /\ MapsOntoUp(diceBodies[1].quaternion, CubeFaces[2].normal)
    /\ results[1] = 5

\* The vertex opposite to vertex v of a shape, and the face opposite to face i:
\* the face whose vertices are the antipodes of the vertices of face i.
Antipode(shape, v) ==
    CHOOSE w \in 0..(Len(shape.vertices) - 1) :
        At(shape.vertices, w) = vneg(At(shape.vertices, v))
FaceVertices(shape, i) == {At(shape.faces, i)[k] : k \in 1..Len(At(shape.faces, i))}
Opposite(shape, i) ==
    CHOOSE j \in 0..(Len(shape.faces) - 1) :
        FaceVertices(shape, j) = {Antipode(shape, v) : v \in FaceVertices(shape, i)}

\* C3: on the icosahedron of a d20 body, value(i) + value(opposite(i)) = 21
\* for every face index i, value being mapFaceIndexToValue("d20", i).
C3_OppositeFacesSum21 ==
    \A b \in 1..Len(results) :
        diceBodies[b].diceType = "d20" =>
            \A i \in 0..(Len(diceBodies[b].shape.faces) - 1) :
                mapFaceIndexToValue("d20", i)
                    + mapFaceIndexToValue("d20", Opposite(diceBodies[b].shape, i)) = 21

\* Out of bounds, within the tray's footprint and above the floor, as the
\* claim words them (lengths in units of 1/100).
C10_WasOutOfBounds(body) ==
    body.position[2] < -500 \/ Abs(body.position[1]) > 700 \/ Abs(body.position[3]) > 700
C10_Recovered(body) ==
    /\ Abs(body.position[1]) <= 500
    /\ Abs(body.position[3]) <= 500
    /\ body.position[2] > 0
    /\ body.velocity[1] = 0
    /\ body.velocity[3] = 0
    /\ body.sleepState = AWAKE

\* C10: after one recovery pass (resetOutOfBoundsDice) every die that was out
\* of bounds (y < -5, |x| > 7 or |z| > 7) is within the tray's footprint
\* (|x| <= 5, |z| <= 5), above the floor (y > 0), has zero horizontal velocity
\* and is awake; the dice that were in bounds are left unchanged.
C10_RecoveryPass ==
    [][lastOp' = "resetOutOfBoundsDice" =>
          /\ Len(diceBodies') = Len(diceBodies)
          /\ \A i \in 1..Len(diceBodies) :
                IF C10_WasOutOfBounds(diceBodies[i])
                THEN C10_Recovered(diceBodies'[i])
                ELSE diceBodies'[i] = diceBodies[i]]_vars

\* After a recovery pass over two dice: the first was brought back from
\* outside (it falls at 5 units/s from y >= 3), the second, asleep on the edge
\* of the bounds, was left where it was.
C10_Witness ==
    /\ lastOp = "resetOutOfBoundsDice"
    /\ Len(diceBodies) = 2
    /\ diceBodies[1].velocity = <<0, -500, 0>>
    /\ diceBodies[1].position[2] >= 300
    /\ diceBodies[1].sleepState = AWAKE
    /\ diceBodies[1].angularVelocity # <<0, 0, 0>>
    /\ diceBodies[2].position = <<700, -500, -700>>
    /\ diceBodies[2].sleepState = SLEEPING



\* The label the claim gives a pair of bodies, in the claim's words.
IsRosterDie(b) == \E i \in 1..Len(diceBodies) : diceBodies[i].id = b
ExactlyOneDie(a, b) == (IsRosterDie(a) /\ ~IsRosterDie(b)) \/ (IsRosterDie(b) /\ ~IsRosterDie(a))
LabelOf(a, b, label) ==
    CASE label = "dice" -> IsRosterDie(a) /\ IsRosterDie(b)
      [] label = "floor" -> ExactlyOneDie(a, b) /\ floorBody \in {a, b}
      [] label = "wall" -> ExactlyOneDie(a, b) /\ (\E k \in 1..Len(wallBodies) : wallBodies[k] \in {a, b})
Reports(a, b, label) ==
    \E e \in 1..Len(sink) : sink[e].bi = a /\ sink[e].bj = b /\ sink[e].type = label

\* C8: for every contact pair (A, B) of a step the classifier reports 'dice'
\* iff both are roster dice, 'floor' iff exactly one is a roster die and the
\* other is the floor, 'wall' iff exactly one is a roster die and the other
\* is a wall, and nothing when neither is a roster die; with a single die and
\* only the floor touched, only 'floor' events are reported.
C8_LabelIffRule ==
    lastOp = "step" =>
        /\ \A k \in 1..Len(worldContacts) : \A label \in {"dice", "floor", "wall"} :
              Reports(worldContacts[k].bi, worldContacts[k].bj, label)
                  <=> LabelOf(worldContacts[k].bi, worldContacts[k].bj, label)
        /\ (Len(diceBodies) = 1
              /\ \A k \in 1..Len(worldContacts) : floorBody \in {worldContacts[k].bi, worldContacts[k].bj})
             => \A e \in 1..Len(sink) : sink[e].type = "floor"

\* The relative speed of the two bodies of a contact is at least 1.
Significant(c) ==
    LengthSq(<<VelocityOf(diceBodies, c.bi)[1] - VelocityOf(diceBodies, c.bj)[1],
               VelocityOf(diceBodies, c.bi)[2] - VelocityOf(diceBodies, c.bj)[2],
               VelocityOf(diceBodies, c.bi)[3] - VelocityOf(diceBodies, c.bj)[3]>>) >= 100 * 100
EventsFor(a, b) == {e \in 1..Len(sink) : {sink[e].bi, sink[e].bj} = {a, b}}

\* C9: for every physically significant contact between a die and another
\* body in a step, exactly one classified event is delivered to the sink
\* (not zero, not several), with impact speed >= 0.
C9_ExactlyOneEvent ==
    lastOp = "step" =>
        \A k \in 1..Len(worldContacts) :
            Significant(worldContacts[k]) =>
                /\ Cardinality(EventsFor(worldContacts[k].bi, worldContacts[k].bj)) = 1
                /\ \A e \in EventsFor(worldContacts[k].bi, worldContacts[k].bj) :
                      sink[e].velocitySq >= 0

\* Roll r is under way, its results wait for their timer, it has delivered,
\* or it was dropped without delivering.
Rolling(r) == isRolling /\ onRollComplete = <<r>>
Pending(r) == \E t \in timers : t.callback = r
Live(r) == r <= Len(promises) /\ (Rolling(r) \/ Pending(r))
Resolved(r) == r <= Len(promises) /\ promises[r].resolved
Dropped(r) == r <= Len(promises) /\ ~promises[r].resolved /\ ~Live(r)

\* C4: the results list roll(count) delivers has exactly count entries, and
\* its i-th entry is the resolved value of the i-th die the roll created:
\* the list stopRolling hands to the timer is that list, and the promise is
\* resolved with the list of its timer.
C4_ResultsInCreationOrder ==
    [][/\ \A t \in timers' \ timers :
              /\ Len(t.results) = promises'[t.callback].count
              /\ Len(diceData') = Len(t.results)
              /\ \A i \in 1..Len(t.results) :
                    t.results[i] = getDiceValue(BodyOf(diceBodies', diceData'[i]), 0)
       /\ \A r \in 1..Len(promises) :
              (promises'[r].resolved /\ ~promises[r].resolved) =>
                  /\ \E t \in timers : t.callback = r /\ promises'[r].value = t.results
                  /\ Len(promises'[r].value) = promises[r].count
      ]_vars

\* A roll of two dice has delivered two different values.
C4_Witness ==
    \E r \in 1..Len(promises) :
        /\ promises[r].resolved
        /\ promises[r].count = 2
        /\ Len(promises[r].value) = 2
        /\ promises[r].value[1] # promises[r].value[2]

\* C5: after roll(n), called in any state, every body of earlier rolls is
\* gone from the world and the roster: the roster holds exactly the n new
\* bodies and the world the tray and them.
C5_RollReplacesRoster ==
    [][Len(promises') = Len(promises) + 1 =>
          LET n == promises'[Len(promises')].count
          IN  /\ Len(diceBodies') = n
              /\ Cardinality(Ids(diceBodies')) = n
              /\ Ids(diceBodies') \cap Ids(diceBodies) = {}
              /\ worldBodies' = TrayBodies \cup Ids(diceBodies')
      ]_vars

\* A roll of one die was made while the results of a roll of two dice were
\* waiting for their timer.
C5_Witness ==
    /\ diceData # <<>>
    /\ Len(promises) = 2
    /\ promises[1].count = 2
    /\ promises[2].count = 1
    /\ Pending(1)
    /\ Len(diceBodies) = 1
    /\ worldBodies = TrayBodies \cup {diceBodies[1].id}

Tumbling(body) == body.sleepState = AWAKE /\ LengthSq(body.velocity) >= 100
FrameStep == frameRan' /\ ~frameRan /\ promises' = promises

C7_EveryRollDelivers ==
    \A r \in 1..MaxRolls : (Len(promises) >= r) ~> Resolved(r)

\* C11: once allDiceStopped has returned true for a roster, every later call
\* of allDiceStopped on that roster returns true as well, physics steps and
\* recovery passes in between or not (nothing else touches the dice).
C11_SettledStaysSettled ==
    [](allStopped => [](lastOp = "allDiceStopped" => allStopped))

\* allDiceStopped has returned true for two dice: one asleep on the very
\* edge of the bounds, the other asleep in the tray.
C11_Witness ==
    /\ lastOp = "allDiceStopped"
    /\ allStopped
    /\ Len(diceBodies) = 2
    /\ diceBodies[1].position = <<700, -500, -700>>
    /\ diceBodies[2].position = <<0, 50, 0>>
    /\ \A i \in 1..2 : diceBodies[i].sleepState = SLEEPING

\* C12: a die asked for with a type outside {d4, d6, d8, d12, d20} is made
\* all the same; it gets the cube shape and its value is resolved as for a
\* d6: the value of the up-most cube face, in 1..6.
C12_UnknownTypeResolvedAsD6 ==
    \A i \in 1..Len(results) :
        diceBodies[i].diceType \notin DiceTypes =>
            /\ diceBodies[i].shape.type = "Box"
            /\ results[i] = getD6Value(diceBodies[i])
            /\ results[i] \in 1..6

\* C13: for a body whose shape data is missing or malformed (no shape, not a
\* convex polyhedron, an empty face list, a face naming a missing vertex)
\* getDiceValue does not throw and returns a value in 1..N for the body's
\* type.
C13_MalformedShapeValueInRange ==
    \A i \in 1..Len(results) :
        diceBodies[i].shape \in MalformedShapes =>
            /\ results[i] # TypeError
            /\ results[i] \in 1..Sides(diceBodies[i].diceType)

\* C14: clear() and roll() may come at any point.  After clear() nothing of
\* the cancelled roll is simulated again: until the next roll no frame
\* steps the physics, writes a pose or runs the settlement check; the only
\* frame request that is ever pending is the one of the roll under way; a
\* body that has left the roster is out of the world and never comes back.
FrameWork ==
    \/ lastOp' \in {"step", "allDiceStopped", "getAllResults"}
    \/ diceBodies' # diceBodies
    \/ worldContacts' # worldContacts
    \/ sink' # sink
ClearedIds == (1..(nextId - 1)) \ Ids(diceBodies)
C14_NothingRunsAfterClear ==
    /\ [][(lastOp = "clearDice" /\ promises' = promises) => ~FrameWork]_vars
    /\ [](frames = IF isRolling THEN {animationId[1]} ELSE {})
    /\ [](ClearedIds \cap worldBodies = {})
    /\ [][Ids(diceBodies') \cap ClearedIds = {}]_vars

\* A roll was cleared while under way, and the clock has gone on since.
C14_Witness ==
    /\ lastOp = "clearDice"
    /\ Len(promises) = 1
    /\ ~promises[1].resolved
    /\ timers = {}
    /\ now = TickMs
    /\ ClearedIds = {1, 2}

\* C15: after any sequence of createDiceBody, clearDice, roll, clear and
\* dispose every body of the roster is in the world, and an operation that
\* takes a roster body out of the world takes it off the roster as well.
C15_RosterInWorld ==
    /\ [](Ids(diceBodies) \subseteq worldBodies)
    /\ [][\A id \in Ids(diceBodies) :
            id \notin worldBodies' => id \notin Ids(diceBodies')]_vars

\* Two bodies were made and dispose has taken them and the tray out.
C15_Witness ==
    /\ lastOp = "dispose"
    /\ worldBodies = {}
    /\ diceBodies = <<>>
    /\ nextId >= 3

\* C16: the diceType of a body is the type the manager had when the body
\* was made, and no step changes it while the body is on the roster, a
\* setDiceType during the roll included; the value of a die is resolved as
\* a value of that type.
SameBody(i, j) == diceBodies[i].id = diceBodies'[j].id
C16_TypeFixedAtCreation ==
    /\ [][\A i \in 1..Len(diceBodies), j \in 1..Len(diceBodies') :
            SameBody(i, j) => diceBodies'[j].diceType = diceBodies[i].diceType]_vars
    /\ [][\A j \in 1..Len(diceBodies') :
            diceBodies'[j].id >= nextId => diceBodies'[j].diceType = diceType]_vars
    /\ [](\A i \in 1..Len(results) :
            \E rnd \in Rand : results[i] = getDiceValue(diceBodies[i], rnd))

\* A d8 was rolled, the manager was set back to d6 during the roll, and the
\* die has been resolved by the timeout, off the tray.
C16_Witness ==
    /\ lastOp = "getAllResults"
    /\ Len(results) = 1
    /\ diceBodies[1].diceType = "d8"
    /\ diceBodies[1].shape = createOctahedronShape(scale)
    /\ diceType = "d6"
    /\ isRolling = FALSE
    /\ results[1] \in 1..8
    /\ diceBodies[1].position[2] = -600

\* C17: a contact whose two sides are the same body is never reported, also
\* when the body is a die of the roster and is moving fast.
C17_SelfContactUnreported ==
    \A k \in 1..Len(sink) : sink[k].bi # sink[k].bj

\* A step with a contact of a fast roster die with itself, in which the
\* contact of die 1 with the floor was reported.
C17_Witness ==
    /\ lastOp = "step"
    /\ sink # <<>>
    /\ \E k \in 1..Len(worldContacts) :
          /\ worldContacts[k].bi = worldContacts[k].bj
          /\ IsRosterDie(worldContacts[k].bi)
          /\ LengthSq(VelocityOf(diceBodies, worldContacts[k].bi)) >= 100 * 100

\* C18: the classifier labels every contact between a roster die and the
\* floor, a wall or another die, whatever the speed of the impact: also for
\* a contact that is not significant the event with the label of the pair is
\* in the sink.
DieContact(c) ==
    /\ c.bi # c.bj
    /\ IsRosterDie(c.bi) \/ IsRosterDie(c.bj)
C18_LabelWhateverTheSpeed ==
    lastOp = "step" =>
        \A k \in 1..Len(worldContacts) :
            DieContact(worldContacts[k]) =>
                \E e \in EventsFor(worldContacts[k].bi, worldContacts[k].bj) :
                    LabelOf(worldContacts[k].bi, worldContacts[k].bj, sink[e].type)

\* C19: a call of allDiceStopped returns true only if no die was out of
\* bounds when it was called and every die was asleep or had a linear and
\* an angular speed both below 0.1; a call that recovers a die returns
\* false.
SettledBody(body) ==
    \/ body.sleepState = SLEEPING
    \/ LengthSq(body.velocity) < 10 * 10 /\ LengthSq(body.angularVelocity) < 10 * 10
SettlementCall == lastOp' = "allDiceStopped"
C19_TrueOnlyIfSettledAndInBounds ==
    /\ [][(SettlementCall /\ allStopped') =>
            \A i \in 1..Len(diceBodies) :
                ~isOutOfBounds(diceBodies[i]) /\ SettledBody(diceBodies[i])]_vars
    /\ [][(SettlementCall /\ \E i \in 1..Len(diceBodies) : isOutOfBounds(diceBodies[i]))
            => ~allStopped']_vars

\* A call has found die 1 asleep, has recovered die 2 and has returned false.
C19_Witness ==
    /\ lastOp = "allDiceStopped"
    /\ ~allStopped
    /\ Len(diceBodies) = 2
    /\ diceBodies[1].sleepState = SLEEPING
    /\ diceBodies[2].sleepState = AWAKE
    /\ diceBodies[2].velocity = <<0, -500, 0>>
    /\ diceBodies[2].position[2] >= 300

\* C20: each roll is resolved exactly once, by the first frame at which the
\* timeout has elapsed or the settlement check passes: a frame that leaves
\* the roll under way has seen neither, a frame that stops it has seen one
\* of them; the results are those of the orientations of that frame and go
\* to one timer; the promise of the roll is resolved, once, and never
\* changes afterwards; stopRolling and animate do nothing when no roll is
\* under way.
AtMostOnce ==
    /\ [](\A t, u \in timers : t.callback = u.callback => t = u)
    /\ [](\A t \in timers : ~promises[t.callback].resolved /\ ~Rolling(t.callback))
    /\ [][\A r \in 1..Len(promises) : promises[r].resolved => promises'[r] = promises[r]]_vars
OnTheFirstFrame ==
    [][(isRolling /\ FrameStep) =>
          IF isRolling'
          THEN /\ ~(now - rollStartTime > maxRollTime)
               /\ lastOp' = "allDiceStopped" /\ ~allStopped'
               /\ timers' = timers
          ELSE /\ \/ now - rollStartTime > maxRollTime
                  \/ \A i \in 1..Len(diceBodies') : diceBodies'[i].sleepState = SLEEPING
               /\ \E t \in timers' \ timers :
                     /\ <<t.callback>> = onRollComplete
                     /\ t.results = getAllResults(diceBodies', SameForAll(0))
      ]_vars
NoFurtherEffect ==
    [](~isRolling =>
          /\ stopRolling(Manager, SameForAll(0)) = Manager
          /\ \A o \in ManagerOutcomes :
                animate(Manager, <<>>, [i \in 1..Len(diceBodies) |-> o],
                        SameForAll(SixDraws(0)), SameForAll(0)) = Manager)
C20_ResolvedExactlyOnce ==
    /\ AtMostOnce
    /\ OnTheFirstFrame
    /\ NoFurtherEffect
    /\ \A r \in 1..MaxRolls : [](Len(promises) >= r => <>Resolved(r))
\* What of C20 does not depend on the roll being delivered at all.
C20_SafetyPart == AtMostOnce /\ OnTheFirstFrame /\ NoFurtherEffect

\* C21: when step() returns, every event it has reported belongs to a
\* contact of that step, with the speed and the place the bodies have after
\* that step's integration; nothing is reported for a contact of an earlier
\* step that this step has not found again.
FromThisStep(e) ==
    \E k \in 1..Len(worldContacts) :
        /\ worldContacts[k].bi = e.bi /\ worldContacts[k].bj = e.bj
        /\ Significant(worldContacts[k])
        /\ e.velocitySq =
              LengthSq(<<VelocityOf(diceBodies, e.bi)[1] - VelocityOf(diceBodies, e.bj)[1],
                         VelocityOf(diceBodies, e.bi)[2] - VelocityOf(diceBodies, e.bj)[2],
                         VelocityOf(diceBodies, e.bi)[3] - VelocityOf(diceBodies, e.bj)[3]>>)
        /\ e.x2 = PositionOf(diceBodies, e.bi)[1] + PositionOf(diceBodies, e.bj)[1]
C21_EventsOfThisStepOnly ==
    /\ lastOp = "step" => \A e \in 1..Len(sink) : FromThisStep(sink[e])
    /\ Len(sink) <= Len(worldContacts)

\* A step has found the one die on a wall, fast, and has reported it.
C21_Witness ==
    /\ lastOp = "step"
    /\ worldContacts = <<Contact(1, wallBodies[1], 150)>>
    /\ Len(sink) = 1
    /\ sink[1].type = "wall"
    /\ sink[1].velocitySq = 100 * 100

\* C22: the face the resolver takes is the first, in iteration order, whose
\* alignment with world up is maximal: no face is more aligned and every
\* earlier face is strictly less aligned (faceNormals order for a d6, the
\* order of the face list for a polyhedron).
D6Dot(q, k) == dot(vmult(q, faceNormals[k].normal), upVector)
PolyDot(body, i) == dot(vmult(body.quaternion, FaceNormal(body.shape, i)), upVector)
FirstMaxD6(q, k) ==
    /\ \A j \in 1..Len(faceNormals) : ~PGt(D6Dot(q, j), D6Dot(q, k))
    /\ \A j \in 1..(k - 1) : PGt(D6Dot(q, k), D6Dot(q, j))
FirstMaxPoly(body, i) ==
    /\ \A j \in 0..(Len(body.shape.faces) - 1) : ~PGt(PolyDot(body, j), PolyDot(body, i))
    /\ \A j \in 0..(i - 1) : PGt(PolyDot(body, i), PolyDot(body, j))
C22_FirstMaximalFaceWins ==
    \A i \in 1..Len(results) :
        LET body == diceBodies[i]
        IN  /\ body.diceType \in {"d6", ""} =>
                  \E k \in 1..Len(faceNormals) :
                      FirstMaxD6(body.quaternion, k) /\ results[i] = faceNormals[k].face
            /\ body.diceType \in DiceTypes \ {"d6"} =>
                  \E f \in 0..(Len(body.shape.faces) - 1) :
                      FirstMaxPoly(body, f)
                          /\ results[i] = mapFaceIndexToValue(body.diceType, f)

\* A d6 turned half round about its (1, 1, 1) diagonal: +X and +Z are
\* equally up, and the value is that of +X, the earlier of the two.
C22_Witness ==
    /\ Len(results) = 1
    /\ diceBodies[1].diceType = "d6"
    /\ diceBodies[1].quaternion = <<1, 1, 1, 0>>
    /\ D6Dot(<<1, 1, 1, 0>>, 1) = D6Dot(<<1, 1, 1, 0>>, 5)
    /\ FirstMaxD6(<<1, 1, 1, 0>>, 1)
    /\ results[1] = 2

\* C23: the floor and the four walls are in the world from its
\* initialisation on, and no createDiceBody, throwDice, step, allDiceStopped,
\* clearDice, roll or clear takes a tray body out of the world or puts one
\* in: the tray in the world changes only by dispose, which removes all of
\* it.
TrayInWorld == TrayBodies \cap worldBodies
C23_TrayOnlyRemovedByDispose ==
    /\ [](TrayInWorld = TrayBodies \/ TrayInWorld = {})
    /\ [][TrayInWorld' # TrayInWorld => (lastOp' = "dispose" /\ TrayInWorld' = {})]_vars
    /\ [][lastOp' # "dispose" => TrayInWorld' = TrayInWorld]_vars

\* Dice were made by createDiceBody and by a roll, stepped, checked and
\* cleared, and the world is the tray.
C23_Witness ==
    /\ lastOp = "clearDice"
    /\ Len(promises) >= 1
    /\ nextId >= 4
    /\ worldBodies = TrayBodies
    /\ Cardinality(TrayBodies) = 5

\* C24: the resolver and the renderer have the same face-to-value mapping:
\* the value the resolver gives the cube face of each normal +X, -X, +Y, -Y,
\* +Z, -Z is the value painted on the material of that face, the value it
\* returns for face index i of a d8 or a d20 is the i-th painted value, and
\* so every resolved d6, d8 or d20 shows the value painted on the face that
\* the resolver found up.
ResolverValueOf(normal) ==
    faceNormals[CHOOSE k \in 1..Len(faceNormals) : faceNormals[k].normal = normal].face
SameTables ==
    /\ Len(faceNormals) = Len(createD6Materials)
    /\ \A k \in 1..Len(BoxGeometryNormals) :
          ResolverValueOf(BoxGeometryNormals[k]) = createD6Materials[k]
    /\ \A f \in 0..7 : mapFaceIndexToValue("d8", f) = At(createD8Materials, f)
    /\ \A f \in 0..19 : mapFaceIndexToValue("d20", f) = At(createD20Materials, f)
Painted(body, f) ==
    IF body.diceType = "d8" THEN At(createD8Materials, f) ELSE At(createD20Materials, f)
C24_ResolverAgreesWithRenderer ==
    /\ SameTables
    /\ \A i \in 1..Len(results) :
          LET body == diceBodies[i]
          IN  /\ body.diceType = "d6" =>
                    \E k \in 1..Len(BoxGeometryNormals) :
                        /\ faceNormals[k].normal = BoxGeometryNormals[k]
                        /\ FirstMaxD6(body.quaternion, k)
                        /\ results[i] = createD6Materials[k]
              /\ body.diceType \in {"d8", "d20"} =>
                    \E f \in 0..(Len(body.shape.faces) - 1) :
                        FirstMaxPoly(body, f) /\ results[i] = Painted(body, f)

\* A d20 lying with face 1 of its face list up shows, and resolves to, the
\* 20 painted second.
C24_Witness ==
    /\ Len(results) = 1
    /\ diceBodies[1].diceType = "d20"
    /\ FirstMaxPoly(diceBodies[1], 1)
    /\ results[1] = At(createD20Materials, 1)
    /\ results[1] = 20

\* C25: the list a roll's timer holds is the list computed when the roll
\* stopped, and it is delivered to the promise of that roll: in every step,
\* a clear or a new roll during the delay included, a waiting timer either
\* stays as it is or runs and resolves its own roll with its own list; a
\* promise changes only by its own timer.
C25_DelayedListIsKeptAndDelivered ==
    /\ [][\A t \in timers :
            \/ t \in timers'
            \/ /\ promises'[t.callback].resolved
               /\ promises'[t.callback].value = t.results
               /\ Len(t.results) = promises[t.callback].count]_vars
    /\ [][\A r \in 1..Len(promises) :
            promises'[r] # promises[r] =>
                \E t \in timers \ timers' : t.callback = r]_vars

\* Two dice settled at once; during the delay one die was rolled; the first
\* caller has its two values, the roster is the one die of the second roll.
C25_Witness ==
    /\ Len(promises) = 2
    /\ promises[1].count = 2
    /\ promises[1].resolved
    /\ promises[1].value = <<3, 3>>
    /\ promises[2].count = 1
    /\ rollStartTime < resultDelay
    /\ Len(diceBodies) = 1

\* C26: the roll that a click on Roll of the start screen starts spawns
\* settings.count dice, each of the type settings.type, the settings being
\* the count and the type selected in the start UI when the click came.
RollFromStartScreen ==
    /\ Len(promises') > Len(promises)
    /\ currentSettings' = [count |-> selectedCount, type |-> selectedType]
C26_RollHasSelectedTypeAndCount ==
    [][RollFromStartScreen =>
          /\ Len(diceBodies') = currentSettings'.count
          /\ \A j \in 1..Len(diceBodies') :
                diceBodies'[j].diceType = currentSettings'.type]_vars

\* C28: while the roll that startRolling started last has not shown its
\* results, no click calls DiceManager.roll again, whatever the order of the
\* Roll, Reroll and Home clicks.
RollInFlight == promises # <<>> /\ ~promises[Len(promises)].resolved
C28_OneRollInFlight ==
    [][RollInFlight => Len(promises') = Len(promises)]_vars

\* C27: in every reachable state of DiceManager at most one animation-frame
\* callback is pending, and none while isRolling is false, whatever the order
\* of roll, clear, stopRolling and the frame callbacks; a step of the physics
\* outside roll() is the callback of the one pending frame, which had not
\* run before, so that no frame is stepped twice.
PhysicsStepped ==
    /\ promises' = promises
    /\ lastOp' \in {"step", "allDiceStopped", "getAllResults"}
    /\ <<lastOp, diceBodies, worldContacts, results>>' #
           <<lastOp, diceBodies, worldContacts, results>>
C27_AtMostOneFramePending ==
    /\ [](Cardinality(frames) <= 1)
    /\ [](~isRolling => frames = {})
    /\ [][PhysicsStepped => (frames # {} /\ ~frameRan /\ frameRan')]_vars

\* A second roll replaced a roll that was under way, a frame of the second
\* roll has run since and one frame is pending.
C27_Witness ==
    /\ Len(promises) = 2
    /\ ~promises[1].resolved
    /\ timers = {}
    /\ isRolling
    /\ lastOp = "allDiceStopped"
    /\ now > rollStartTime
    /\ Cardinality(frames) = 1

\* C29: getDiceValue of a d12 body returns a value in 1..8 only: the shape
\* of a d12 is the octahedron of eight faces, and the face of index i up
\* gives i + 1.
C29_D12ValueInOneToEight ==
    \A i \in 1..Len(results) :
        diceBodies[i].diceType = "d12" =>
            /\ Len(diceBodies[i].shape.faces) = 8
            /\ results[i] \in 1..8

\* A d12 was resolved, and its last face, of index 7, was up.
C29_Witness ==
    /\ Len(results) = 1
    /\ diceBodies[1].diceType = "d12"
    /\ lastOp = "getAllResults"
    /\ results[1] = 8

\* C30: when every call of setLanguage, each with a supported language, has
\* completed and every file was fetched, the translations are those of
\* currentLang, the language of the last call, whatever the order in which
\* the loads ended.
AllLoadsCompleted ==
    /\ loads # <<>>
    /\ \A k \in 1..Len(loads) : loads[k].at = "done" /\ ~loads[k].failed
C30_TranslationsOfCurrentLang ==
    AllLoadsCompleted =>
        /\ currentLang = loads[Len(loads)].lang
        /\ translations = TranslationsOf(currentLang)

============================================================================
